---------------------------- MODULE Spec2Model ----------------------------
(***************************************************************************)
(* A model of the rayrust path tracer: the light-transport integrator      *)
(* ray_color (src/src/main.rs), the render loop of main with its parallel  *)
(* per-pixel tasks (src/src/main.rs) and the colour value type with its    *)
(* output encoding (src/src/vec.rs).                                       *)
(*                                                                         *)
(* f64 values are fixed-point integers in units of 1/Scale; products and   *)
(* quotients truncate toward zero.  NaN is a distinguished value.          *)
(***************************************************************************)
EXTENDS Integers, Sequences, FiniteSets, TLC

VARIABLES
    \* ---- one call of ray_color (main.rs:23-39) ----
    rc_pc,          \* position inside the innermost active frame
    rc_depth0,      \* the depth argument of the outermost call
    rc_depth,       \* the depth argument of the innermost active frame
    rc_dir,         \* direction of the ray of the innermost active frame
    rc_stack,       \* attenuations of the frames waiting for their recursive call
    rc_val,         \* value returned by the frame that returned last
    rc_atts,        \* history: attenuations of every scatter that continued
    rc_term,        \* history: how the path ended
    hitCalls,       \* number of calls of world.hit
    scatterCalls,   \* number of calls of Material::scatter
    rc_underflow,   \* depth - 1 was evaluated with depth = 0
    \* ---- main (main.rs:99-160) ----
    pc,             \* position of the main thread
    iter,           \* the reversed range (0..IMAGE_HEIGHT).rev(): rows not yet yielded
    j,              \* loop variable of the scanline loop
    stdout,         \* pixel stream: the lines printed with println!
    stderr,         \* progress stream: what eprintln!/eprint! wrote
    scanline,       \* the Vec<Color> that collect() builds, one slot per column
    nwritten,       \* pixels of the current scanline already printed
    world,          \* the scene, shared by reference with every task
    cam,            \* the camera, shared by reference with every task
    \* ---- the pixel tasks of the current scanline (main.rs:136-151) ----
    tpc,            \* per column: position of the closure
    thread,         \* per column: pool thread running the closure
    rng,            \* per column: generator behind the closure's `rng` handle
    vrng,           \* per column: generator behind Vec3::random's handle
    acc,            \* per column: pixel_color
    s,              \* per column: samples completed
    uv,             \* per column: the (u, v) passed to cam.get_ray, as numerators
    own,            \* per column: history, the sum of the ray_color values it got
    order,          \* history: the columns of the scanline in the order they returned
    actor           \* history: who took the last step

rcvars == <<rc_pc, rc_depth0, rc_depth, rc_dir, rc_stack, rc_val, rc_atts,
            rc_term, hitCalls, scatterCalls, rc_underflow>>
mainvars == <<pc, iter, j, stdout, stderr, scanline, nwritten, world, cam>>
taskvars == <<tpc, thread, rng, vrng, acc, s, uv, own, order, actor>>
vars == <<rcvars, mainvars, taskvars>>

---------------------------------------------------------------------------
\* Bounds of the model

\* components of a ray direction range over -DirMax..DirMax
DirMax == 1
\* a generated random number in [0,1) is k/JitterSteps, k in 0..JitterSteps-1
JitterSteps == 2
\* threads of the rayon pool
NumThreads == 2

\* depth budgets 0..DepthMax are given to ray_color
DepthMax == 2

\* The image of main.rs:102-104, scaled down
IMAGE_WIGHT == 2
IMAGE_HEIGHT == 2
SAMPLES_PER_PIXEL == 2

---------------------------------------------------------------------------
\* f64 arithmetic (fixed point)

Scale == 1000
NaN == 0 - (Scale * Scale * Scale)

IsNaN(x) == x = NaN

\* a / b, truncated toward zero
DivT(a, b) == IF a < 0 THEN 0 - ((0 - a) \div b) ELSE a \div b

\* f64 * f64
FMul(a, b) == IF IsNaN(a) \/ IsNaN(b) THEN NaN ELSE DivT(a * b, Scale)

\* f64 / f64 (0/0 is NaN; no other division by zero occurs in the model)
FDiv(a, b) == IF IsNaN(a) \/ IsNaN(b) \/ b = 0 THEN NaN ELSE DivT(a * Scale, b)

\* f64 + f64
FAdd(a, b) == IF IsNaN(a) \/ IsNaN(b) THEN NaN ELSE a + b

RECURSIVE ISqrtIn(_, _, _)
ISqrtIn(n, lo, hi) ==
    IF lo >= hi THEN lo
    ELSE LET mid == (lo + hi + 1) \div 2
         IN  IF mid * mid <= n THEN ISqrtIn(n, mid, hi)
             ELSE ISqrtIn(n, lo, mid - 1)

\* largest k with k*k <= n
ISqrt(n) == ISqrtIn(n, 0, 46340)

\* f64::sqrt: NaN for a negative argument and for NaN
FSqrt(x) == IF IsNaN(x) \/ x < 0 THEN NaN ELSE ISqrt(x * Scale)

\* f64::clamp: NaN stays NaN
FClamp(x, lo, hi) ==
    IF IsNaN(x) THEN NaN ELSE IF x < lo THEN lo ELSE IF x > hi THEN hi ELSE x

\* `as u64` of an f64: NaN and negatives give 0, the fraction is dropped
AsU64(x) == IF IsNaN(x) \/ x < 0 THEN 0 ELSE x \div Scale

---------------------------------------------------------------------------
\* Vec3 (vec.rs)

Vec3New(e0, e1, e2) == <<e0, e1, e2>>
X(v) == v[1]
Y(v) == v[2]
Z(v) == v[3]

VAdd(a, b) == <<FAdd(X(a), X(b)), FAdd(Y(a), Y(b)), FAdd(Z(a), Z(b))>>
\* Vec3 * Vec3, element-wise
VMul(a, b) == <<FMul(X(a), X(b)), FMul(Y(a), Y(b)), FMul(Z(a), Z(b))>>
\* f64 * Vec3
SMul(k, v) == <<FMul(k, X(v)), FMul(k, Y(v)), FMul(k, Z(v))>>
\* Vec3 / f64
VDiv(v, k) == <<FDiv(X(v), k), FDiv(Y(v), k), FDiv(Z(v), k)>>

Dot(a, b) == FAdd(FAdd(FMul(X(a), X(b)), FMul(Y(a), Y(b))), FMul(Z(a), Z(b)))
LengthSquared(v) == Dot(v, v)
Length(v) == FSqrt(LengthSquared(v))
Normalized(v) == VDiv(v, Length(v))

Black == Vec3New(0, 0, 0)
White == Vec3New(Scale, Scale, Scale)
SkyBlue == Vec3New(Scale \div 2, (7 * Scale) \div 10, Scale)

\* mutation: no clamp before the quantization
NoClamp(x) == x

\* the clamp of format_color (vec.rs:76-78)
ClampChannel(x) == FClamp(x, 0, (999 * Scale) \div 1000)

\* one channel of format_color (vec.rs:75-76)
FormatChannel(x, samples_per_pixel) ==
    LET scale == FDiv(Scale, samples_per_pixel * Scale)
    IN  AsU64(FMul(256 * Scale, ClampChannel(FSqrt(FMul(x, scale)))))

\* Vec3::format_color (vec.rs:74-80): the three numbers of the line "R G B"
FormatColor(c, samples_per_pixel) ==
    <<FormatChannel(X(c), samples_per_pixel),
      FormatChannel(Y(c), samples_per_pixel),
      FormatChannel(Z(c), samples_per_pixel)>>

---------------------------------------------------------------------------
\* ray_color (main.rs:23-39), one step per call it makes

Coords == {k * Scale : k \in (0 - DirMax)..DirMax}
\* ray directions: not required to be unit length, never the zero vector
Dirs == {d \in Coords \X Coords \X Coords : d # <<0, 0, 0>>}

\* albedos of the scene's materials (main.rs:45, 85, 86) and the white of glass
Attenuations ==
    {Vec3New(Scale \div 2, Scale \div 2, Scale \div 2),
     Vec3New((4 * Scale) \div 10, (2 * Scale) \div 10, Scale \div 10),
     Vec3New((7 * Scale) \div 10, (6 * Scale) \div 10, Scale \div 2),
     White}

\* what world.hit(r, 0.001, INFINITY) can return, for any world
HitResults == {"None", "Some"}

\* what rec.mat.scatter(r, &rec) can return, for any material
ScatterResults ==
    {[some |-> FALSE]} \cup
    {[some |-> TRUE, attenuation |-> a, direction |-> d] :
        a \in Attenuations, d \in Dirs}

\* mutation: the test written as depth < 0
DepthBelowZero(depth) == depth < 0

\* main.rs:24
DepthExhausted(depth) == depth <= 0

\* mutation: the recursive call is given the caller's own budget
DepthKept(depth) == depth

\* depth - 1 on a u64 (main.rs:30): below zero it panics or wraps
DepthMinusOne(depth) == IF depth > 0 THEN depth - 1 ELSE 2147483647

\* main.rs:32, the value of an absorbed ray
Absorbed == Vec3New(0, 0, 0)

\* main.rs:25, the value at depth 0
Exhausted == Vec3New(0, 0, 0)

\* mutation: the direction is used without normalizing it
BackgroundUnnormalized(dir) ==
    LET t == FMul(Scale \div 2, FAdd(Y(dir), Scale))
    IN  VAdd(SMul(Scale - t, White), SMul(t, SkyBlue))

\* main.rs:35-37, the background gradient
Background(dir) ==
    LET unit_direction == Normalized(dir)
        t == FMul(Scale \div 2, FAdd(Y(unit_direction), Scale))
    IN  VAdd(SMul(Scale - t, White), SMul(t, SkyBlue))

\* mutation: the attenuation is not applied
AttenuationDropped(attenuation, inner) == inner

\* main.rs:30, the value of a frame whose recursive call returned inner
Attenuate(attenuation, inner) == VMul(attenuation, inner)

\* main.rs:24-26
RcEntry ==
    /\ rc_pc = "entry"
    /\ IF DepthExhausted(rc_depth)
       THEN /\ rc_val' = Exhausted
            /\ rc_term' = "exhausted"
            /\ rc_pc' = "return"
       ELSE /\ rc_pc' = "hit"
            /\ UNCHANGED <<rc_val, rc_term>>
    /\ UNCHANGED <<rc_depth0, rc_depth, rc_dir, rc_stack, rc_atts, hitCalls,
                   scatterCalls, rc_underflow, mainvars, taskvars>>

\* main.rs:28
RcHit ==
    /\ rc_pc = "hit"
    /\ hitCalls' = hitCalls + 1
    /\ \E h \in HitResults : rc_pc' = IF h = "Some" THEN "scatter" ELSE "miss"
    /\ UNCHANGED <<rc_depth0, rc_depth, rc_dir, rc_stack, rc_val, rc_atts,
                   rc_term, scatterCalls, rc_underflow, mainvars, taskvars>>

\* main.rs:29-33
RcScatter ==
    /\ rc_pc = "scatter"
    /\ scatterCalls' = scatterCalls + 1
    /\ \E r \in ScatterResults :
          IF r.some
          THEN /\ rc_stack' = <<r.attenuation>> \o rc_stack
               /\ rc_atts' = Append(rc_atts, r.attenuation)
               /\ rc_dir' = r.direction
               /\ rc_depth' = DepthMinusOne(rc_depth)
               /\ rc_underflow' = (rc_underflow \/ rc_depth = 0)
               /\ rc_pc' = "entry"
               /\ UNCHANGED <<rc_val, rc_term>>
          ELSE /\ rc_val' = Absorbed
               /\ rc_term' = "absorbed"
               /\ rc_pc' = "return"
               /\ UNCHANGED <<rc_stack, rc_atts, rc_dir, rc_depth, rc_underflow>>
    /\ UNCHANGED <<rc_depth0, hitCalls, mainvars, taskvars>>

\* main.rs:34-38
RcMiss ==
    /\ rc_pc = "miss"
    /\ rc_val' = Background(rc_dir)
    /\ rc_term' = "miss"
    /\ rc_pc' = "return"
    /\ UNCHANGED <<rc_depth0, rc_depth, rc_dir, rc_stack, rc_atts, hitCalls,
                   scatterCalls, rc_underflow, mainvars, taskvars>>

\* a frame returns: to the multiplication of main.rs:30 in its caller, or to
\* the caller of ray_color
RcReturn ==
    /\ rc_pc = "return"
    /\ IF rc_stack # <<>>
       THEN /\ rc_val' = Attenuate(Head(rc_stack), rc_val)
            /\ rc_stack' = Tail(rc_stack)
            /\ rc_depth' = rc_depth + 1
            /\ UNCHANGED rc_pc
       ELSE /\ rc_pc' = "done"
            /\ UNCHANGED <<rc_val, rc_stack, rc_depth>>
    /\ UNCHANGED <<rc_depth0, rc_dir, rc_atts, rc_term, hitCalls, scatterCalls,
                   rc_underflow, mainvars, taskvars>>

\* ray_color is called on a ray with a depth budget (main.rs:23)
RcInit ==
    /\ rc_pc = "entry"
    /\ rc_depth0 \in 0..DepthMax
    /\ rc_depth = rc_depth0
    /\ rc_dir \in Dirs
    /\ rc_stack = <<>>
    /\ rc_val = Black
    /\ rc_atts = <<>>
    /\ rc_term = "running"
    /\ hitCalls = 0
    /\ scatterCalls = 0
    /\ rc_underflow = FALSE

---------------------------------------------------------------------------
\* main (main.rs:99-160) and the pixel tasks of a scanline

Cols == 0..(IMAGE_WIGHT - 1)
Threads == 1..NumThreads
MainThread == 0 - 1
NoThread == 0
NoRng == 0

\* mutation: one generator for the whole process
GlobalRng(t) == 1

\* rand::thread_rng() called on pool thread t (main.rs:138, vec.rs:83): a handle
\* to the generator that lives in t's thread-local storage
ThreadRng(t) == t

\* the values rng.gen::<f64>() can return (main.rs:140-141): [0, 1)
RandomF64 == {(k * Scale) \div JitterSteps : k \in 0..(JitterSteps - 1)}

\* main.rs:143
PixelU(i, random_u) == FDiv(i * Scale + random_u, (IMAGE_WIGHT - 1) * Scale)
\* main.rs:144
PixelV(row, random_v) == FDiv(row * Scale + random_v, (IMAGE_HEIGHT - 1) * Scale)

\* what ray_color(&r, &world, MAX_DEPTH) can return to the render loop
\* (main.rs:147): an absorbed path, or the background straight up
RayColorValues == {Absorbed, Background(<<0, Scale, 0>>)}

\* mutation: one accumulator shared by the tasks of a scanline
AccumulateShared(a, i, c) == [a EXCEPT ![0] = VAdd(@, c)]

\* pixel_color += c in the task of column i (main.rs:147)
AccumulateInto(a, i, c) == [a EXCEPT ![i] = VAdd(@, c)]

\* mutation: results are stored in the order the tasks finish
FinishOrderSlot(i, nreturned) == nreturned + 1

\* the slot of the collected Vec that the result of column i goes to, when
\* nreturned tasks have returned before it (main.rs:134-152, an indexed collect)
CollectSlot(i, nreturned) == i + 1

EmptySlot == [col |-> 0 - 1, row |-> 0 - 1, color |-> Black]
EmptyScanline == [k \in 1..IMAGE_WIGHT |-> EmptySlot]

Running(i) == tpc[i] \in {"sample", "trace"}
NumReturned == Cardinality({i \in Cols : tpc[i] = "returned"})

\* mutation: the range is walked without .rev()
ForwardNext(remaining) == IMAGE_HEIGHT - remaining

\* the row that the reversed range yields when `remaining` rows are left
\* (main.rs:131)
RevNext(remaining) == remaining - 1
\* collect() returns when every task has returned (main.rs:152)
AllReturned == \A i \in Cols : tpc[i] = "returned"

TaskInit ==
    /\ tpc = [i \in Cols |-> "idle"]
    /\ thread = [i \in Cols |-> NoThread]
    /\ rng = [i \in Cols |-> NoRng]
    /\ vrng = [i \in Cols |-> NoRng]
    /\ acc = [i \in Cols |-> Black]
    /\ s = [i \in Cols |-> 0]
    /\ uv = [i \in Cols |-> <<0, 0>>]
    /\ own = [i \in Cols |-> Black]
    /\ order = <<>>
    /\ actor = MainThread

MainInit ==
    /\ pc = "header1"
    /\ iter = IMAGE_HEIGHT
    /\ j = IMAGE_HEIGHT
    /\ stdout = <<>>
    /\ stderr = <<>>
    /\ scanline = EmptyScanline
    /\ nwritten = 0
    /\ world = "scene"
    /\ cam = "camera"

MainStep == actor' = MainThread /\ UNCHANGED <<world, cam, order>>
TasksIdle == UNCHANGED <<tpc, thread, rng, vrng, acc, s, uv, own>>

\* main.rs:127
PrintMagic ==
    /\ pc = "header1"
    /\ stdout' = Append(stdout, [kind |-> "magic"])
    /\ pc' = "header2"
    /\ MainStep /\ TasksIdle
    /\ UNCHANGED <<rcvars, iter, j, stderr, scanline, nwritten>>

\* main.rs:128
PrintSize ==
    /\ pc = "header2"
    /\ stdout' = Append(stdout, [kind |-> "size", width |-> IMAGE_WIGHT,
                                  height |-> IMAGE_HEIGHT])
    /\ pc' = "header3"
    /\ MainStep /\ TasksIdle
    /\ UNCHANGED <<rcvars, iter, j, stderr, scanline, nwritten>>

\* main.rs:129
PrintMaxval ==
    /\ pc = "header3"
    /\ stdout' = Append(stdout, [kind |-> "maxval", maxval |-> 255])
    /\ pc' = "loop"
    /\ MainStep /\ TasksIdle
    /\ UNCHANGED <<rcvars, iter, j, stderr, scanline, nwritten>>

\* main.rs:131-135: the next row, its progress line, and the tasks of its pixels
ScanlineStart ==
    /\ pc = "loop"
    /\ iter > 0
    /\ iter' = iter - 1
    /\ j' = RevNext(iter)
    /\ stderr' = Append(stderr, [kind |-> "remaining", row |-> j'])
    /\ scanline' = EmptyScanline
    /\ tpc' = [i \in Cols |-> "pending"]
    /\ nwritten' = 0
    /\ pc' = "collect"
    /\ order' = <<>>
    /\ actor' = MainThread
    /\ UNCHANGED <<world, cam>>
    /\ UNCHANGED <<rcvars, stdout, thread, rng, vrng, acc, s, uv, own>>

\* main.rs:136-138: a pool thread takes the closure of column i
TaskStart(i, t) ==
    /\ pc = "collect"
    /\ tpc[i] = "pending"
    /\ \A k \in Cols : Running(k) => thread[k] # t
    /\ thread' = [thread EXCEPT ![i] = t]
    /\ acc' = [acc EXCEPT ![i] = Vec3New(0, 0, 0)]
    /\ rng' = [rng EXCEPT ![i] = ThreadRng(t)]
    /\ tpc' = [tpc EXCEPT ![i] = "sample"]
    /\ actor' = i
    /\ UNCHANGED <<rcvars, mainvars, vrng, s, uv, own, order>>

\* main.rs:139-146: the jitter of one sample and its ray
TaskDraw(i) ==
    /\ tpc[i] = "sample"
    /\ s[i] < SAMPLES_PER_PIXEL
    /\ \E random_u \in RandomF64, random_v \in RandomF64 :
          uv' = [uv EXCEPT ![i] = <<PixelU(i, random_u), PixelV(j, random_v)>>]
    /\ tpc' = [tpc EXCEPT ![i] = "trace"]
    /\ actor' = i
    /\ UNCHANGED <<rcvars, mainvars, thread, rng, vrng, acc, s, own, order>>

\* vec.rs:82-91: a scatter inside ray_color draws a vector
Vec3Random(i) ==
    /\ tpc[i] = "trace"
    /\ vrng[i] = NoRng
    /\ vrng' = [vrng EXCEPT ![i] = ThreadRng(thread[i])]
    /\ actor' = i
    /\ UNCHANGED <<rcvars, mainvars, tpc, thread, rng, acc, s, uv, own, order>>

\* main.rs:147: ray_color returns and its value is added
TaskTrace(i) ==
    /\ tpc[i] = "trace"
    /\ \E c \in RayColorValues :
          /\ acc' = AccumulateInto(acc, i, c)
          /\ own' = [own EXCEPT ![i] = VAdd(@, c)]
    /\ s' = [s EXCEPT ![i] = @ + 1]
    /\ vrng' = [vrng EXCEPT ![i] = NoRng]
    /\ uv' = [uv EXCEPT ![i] = <<0, 0>>]
    /\ tpc' = [tpc EXCEPT ![i] = "sample"]
    /\ actor' = i
    /\ UNCHANGED <<rcvars, mainvars, thread, rng, order>>

\* main.rs:150-152: the closure returns pixel_color, collect stores it
TaskReturn(i) ==
    /\ tpc[i] = "sample"
    /\ s[i] >= SAMPLES_PER_PIXEL
    /\ scanline' = [scanline EXCEPT ![CollectSlot(i, NumReturned)] =
                        [col |-> i, row |-> j, color |-> acc[i]]]
    /\ tpc' = [tpc EXCEPT ![i] = "returned"]
    /\ thread' = [thread EXCEPT ![i] = NoThread]
    /\ rng' = [rng EXCEPT ![i] = NoRng]
    /\ order' = Append(order, i)
    /\ actor' = i
    /\ UNCHANGED <<rcvars, pc, iter, j, stdout, stderr, nwritten, world, cam,
                   vrng, acc, s, uv, own>>

\* main.rs:152: collect() returns the Vec, the closures are gone
Collect ==
    /\ pc = "collect"
    /\ AllReturned
    /\ pc' = "write"
    /\ tpc' = [i \in Cols |-> "idle"]
    /\ acc' = [i \in Cols |-> Black]
    /\ s' = [i \in Cols |-> 0]
    /\ own' = [i \in Cols |-> Black]
    /\ actor' = MainThread
    /\ UNCHANGED <<thread, rng, vrng, uv, order>>
    /\ UNCHANGED <<rcvars, iter, j, stdout, stderr, scanline, nwritten, world, cam>>

\* main.rs:154-156: one pixel of the scanline is printed
WritePixel ==
    /\ pc = "write"
    /\ nwritten < IMAGE_WIGHT
    /\ LET px == scanline[nwritten + 1]
       IN  stdout' = Append(stdout,
               [kind |-> "pixel", col |-> px.col, row |-> px.row,
                rgb |-> FormatColor(px.color, SAMPLES_PER_PIXEL)])
    /\ nwritten' = nwritten + 1
    /\ MainStep /\ TasksIdle
    /\ UNCHANGED <<rcvars, pc, iter, j, stderr, scanline>>

\* main.rs:157: the progress line is erased
ClearLine ==
    /\ pc = "write"
    /\ nwritten >= IMAGE_WIGHT
    /\ stderr' = Append(stderr, [kind |-> "clear"])
    /\ pc' = "loop"
    /\ MainStep /\ TasksIdle
    /\ UNCHANGED <<rcvars, iter, j, stdout, scanline, nwritten>>

\* main.rs:159
PrintDone ==
    /\ pc = "loop"
    /\ iter = 0
    /\ stderr' = Append(stderr, [kind |-> "done"])
    /\ pc' = "exit"
    /\ MainStep /\ TasksIdle
    /\ UNCHANGED <<rcvars, iter, j, stdout, scanline, nwritten>>

RcIdle ==
    /\ rc_pc = "idle"
    /\ rc_depth0 = 0
    /\ rc_depth = 0
    /\ rc_dir = <<0, Scale, 0>>
    /\ rc_stack = <<>>
    /\ rc_val = Black
    /\ rc_atts = <<>>
    /\ rc_term = "running"
    /\ hitCalls = 0
    /\ scatterCalls = 0
    /\ rc_underflow = FALSE

\* the program: main and the tasks of its scanlines
Init == MainInit /\ TaskInit /\ RcIdle

Next ==
    \/ PrintMagic
    \/ PrintSize
    \/ PrintMaxval
    \/ ScanlineStart
    \/ \E i \in Cols, t \in Threads : TaskStart(i, t)
    \/ \E i \in Cols : TaskDraw(i)
    \/ \E i \in Cols : Vec3Random(i)
    \/ \E i \in Cols : TaskTrace(i)
    \/ \E i \in Cols : TaskReturn(i)
    \/ Collect
    \/ WritePixel
    \/ ClearLine
    \/ PrintDone

Spec == Init /\ [][Next]_vars

\* one call of ray_color, for every ray, world and depth budget
InitRay == RcInit /\ MainInit /\ TaskInit

NextRay == RcEntry \/ RcHit \/ RcScatter \/ RcMiss \/ RcReturn

SpecRay == InitRay /\ [][NextRay]_vars

---------------------------------------------------------------------------
\* Properties of ray_color, under SpecRay

RcReturned == rc_pc \in {"return", "done"}

\* C1: a call of ray_color with depth = 0 returns exactly black and calls
\* neither world.hit nor a material's scatter, for every ray and world.
C1_DepthZeroIsBlack ==
    rc_depth0 = 0 =>
        /\ hitCalls = 0
        /\ scatterCalls = 0
        /\ rc_pc \in {"entry", "return", "done"}
        /\ RcReturned => rc_val = <<0, 0, 0>>

C1_Witness == rc_depth0 = 0 /\ rc_pc = "done" /\ rc_val = <<0, 0, 0>>

\* the frame that missed has returned and nothing was multiplied into its value
MissReturned ==
    /\ RcReturned
    /\ rc_term = "miss"
    /\ Len(rc_stack) = Len(rc_atts)

Channels == 1..3

\* C4: for a ray that world.hit misses (depth > 0), ray_color returns
\* (1-t)*white + t*(0.5,0.7,1.0) with t = 0.5*(y+1), y the vertical component
\* of the normalized direction; every channel lies between the sky-blue and
\* the white value, and the value moves from white toward sky-blue as y grows.
C4_MissIsGradient ==
    MissReturned =>
        LET y == FDiv(Y(rc_dir), FSqrt(Dot(rc_dir, rc_dir)))
            t == FMul(Scale \div 2, y + Scale)
        IN  /\ rc_depth > 0
            /\ 0 - Scale <= y /\ y <= Scale
            /\ rc_val = VAdd(SMul(Scale - t, <<Scale, Scale, Scale>>),
                             SMul(t, SkyBlue))
            /\ \A c \in Channels : SkyBlue[c] <= rc_val[c] /\ rc_val[c] <= Scale
            /\ y = 0 - Scale => rc_val = <<Scale, Scale, Scale>>
            /\ y = Scale => rc_val = SkyBlue
            /\ \A d \in Dirs :
                  LET yd == FDiv(Y(d), FSqrt(Dot(d, d)))
                  IN  yd >= y => \A c \in Channels : Background(d)[c] <= rc_val[c]

C4_Witness ==
    /\ MissReturned
    /\ rc_val # <<Scale, Scale, Scale>>
    /\ rc_val # SkyBlue
    /\ Y(rc_dir) < 0

RECURSIVE ProductAlong(_, _)
\* the element-wise product of the attenuations with a terminal colour
ProductAlong(atts, terminal) ==
    IF atts = <<>> THEN terminal
    ELSE VMul(Head(atts), ProductAlong(Tail(atts), terminal))

TerminalColour ==
    IF rc_term = "miss" THEN Background(rc_dir) ELSE <<0, 0, 0>>

\* C7: a frame whose scatter continues returns attenuation * (value of its
\* recursive call), a frame whose scatter absorbs returns black; so the value
\* of ray_color is the product of the attenuations along the path times black
\* (absorption, depth exhaustion) or the background colour (a miss).
C7_ProductOfAttenuations ==
    RcReturned =>
        /\ rc_term \in {"absorbed", "exhausted", "miss"}
        /\ rc_term = "exhausted" => Len(rc_atts) = rc_depth0
        /\ rc_val = ProductAlong(
                SubSeq(rc_atts, Len(rc_stack) + 1, Len(rc_atts)), TerminalColour)

C7_Witness ==
    /\ rc_pc = "done"
    /\ rc_term = "miss"
    /\ Len(rc_atts) >= 1
    /\ rc_val # <<0, 0, 0>>
    /\ rc_val # Background(rc_dir)

\* a natural number that every step of the call makes smaller
RcMeasure ==
    CASE rc_pc = "done" -> 0
      [] rc_pc = "return" -> 1 + Len(rc_stack)
      [] rc_pc = "entry" -> rc_depth0 + 2 + 4 * rc_depth + 3
      [] rc_pc = "hit" -> rc_depth0 + 2 + 4 * rc_depth + 2
      [] OTHER -> rc_depth0 + 2 + 4 * rc_depth + 1

\* the call has returned, or one of its steps can be taken
RcCanStep ==
    \/ rc_pc = "done"
    \/ rc_pc = "entry" /\ ENABLED RcEntry
    \/ rc_pc = "hit" /\ ENABLED RcHit
    \/ rc_pc = "scatter" /\ ENABLED RcScatter
    \/ rc_pc = "miss"
    \/ rc_pc = "return" /\ ENABLED RcReturn

C8_Bounded ==
    /\ ~rc_underflow
    /\ rc_depth >= 0
    /\ rc_depth + Len(rc_stack) = rc_depth0
    /\ Len(rc_atts) = scatterCalls - (IF rc_term = "absorbed" THEN 1 ELSE 0)
    /\ hitCalls <= rc_depth0
    /\ scatterCalls <= rc_depth0
    /\ RcMeasure >= 0

\* C8: ray_color(ray, world, d) terminates, also when every ray hits and every
\* scatter continues: the depth argument falls by exactly 1 per recursive
\* call, depth - 1 is never evaluated at depth 0, and one call makes at most d
\* calls of world.hit and at most d calls of scatter.
C8_Terminates ==
    /\ [](C8_Bounded /\ RcCanStep)
    /\ [][RcMeasure' < RcMeasure]_vars

C8_Witness ==
    /\ rc_pc = "done"
    /\ rc_depth0 = DepthMax
    /\ hitCalls = DepthMax
    /\ scatterCalls = DepthMax
    /\ rc_term = "exhausted"

---------------------------------------------------------------------------
\* Properties of the render, under Spec

IsPixel(line) == line.kind = "pixel"
IsReport(e) == e.kind = "remaining"
IsDone(e) == e.kind = "done"
PixelLines == SelectSeq(stdout, IsPixel)
Reports == SelectSeq(stderr, IsReport)
NumPixels == IMAGE_WIGHT * IMAGE_HEIGHT

\* accumulated channel values of every kind: NaN, negative, zero, in range,
\* and far above the sample count
AnyChannel == {NaN} \cup {(k * Scale) \div 4 : k \in (0 - 8)..80}

\* format_color gives 0..255 for every such value; it reads no variable, so one
\* evaluation, before the first line is written, covers every state
FormatInRange ==
    \A x \in AnyChannel : \A n \in 1..SAMPLES_PER_PIXEL :
        FormatChannel(x, n) \in 0..255

\* C2: a complete run writes the header lines P3, "<width> <height>", 255
\* first, then exactly width*height "R G B" lines; every R, G and B written is
\* an integer in 0..255, whatever accumulated colour format_color is given.
C2_PixelStream ==
    /\ \A k \in 1..Len(stdout) :
          /\ k = 1 => stdout[k] = [kind |-> "magic"]
          /\ k = 2 => stdout[k] = [kind |-> "size", width |-> IMAGE_WIGHT,
                                   height |-> IMAGE_HEIGHT]
          /\ k = 3 => stdout[k] = [kind |-> "maxval", maxval |-> 255]
          /\ k > 3 => /\ IsPixel(stdout[k])
                      /\ \A c \in Channels : stdout[k].rgb[c] \in 0..255
    /\ Len(stdout) <= 3 + NumPixels
    /\ pc = "exit" => Len(stdout) = 3 + NumPixels
    /\ stdout = <<>> => FormatInRange

C2_Witness ==
    /\ pc = "exit"
    /\ Len(stdout) = 3 + NumPixels
    /\ \E k \in 1..Len(stdout) : IsPixel(stdout[k]) /\ stdout[k].rgb[3] = 255
    /\ \E k \in 1..Len(stdout) : IsPixel(stdout[k]) /\ stdout[k].rgb = <<0, 0, 0>>

\* C3: the k-th triplet written (k from 0) is the pixel of column k mod width
\* and row height-1 - (k div width), in whatever order the tasks of a scanline
\* start and finish; no pixel of scanline j is written before every task of
\* scanline j has finished.
C3_RowMajorTopFirst ==
    /\ \A k \in 1..Len(PixelLines) :
          /\ PixelLines[k].col = (k - 1) % IMAGE_WIGHT
          /\ PixelLines[k].row = IMAGE_HEIGHT - 1 - ((k - 1) \div IMAGE_WIGHT)
    /\ \A k \in 1..Len(PixelLines) :
          PixelLines[k].row = j =>
              \A i \in Cols : tpc[i] \notin {"pending", "sample", "trace"}
    /\ pc = "write" => Len(order) = IMAGE_WIGHT

C3_Witness ==
    /\ pc = "write"
    /\ nwritten = IMAGE_WIGHT
    /\ order = <<1, 0>>
    /\ Len(PixelLines) = NumPixels

C5_OwnSum ==
    \A i \in Cols :
        /\ acc[i] = own[i]
        /\ tpc[i] = "returned" =>
              /\ s[i] = SAMPLES_PER_PIXEL
              /\ scanline[i + 1] = [col |-> i, row |-> j, color |-> own[i]]

C5_OwnWrites ==
    \A i \in Cols :
        actor' = i =>
            /\ world' = world
            /\ cam' = cam
            /\ \A k \in Cols \ {i} : acc'[k] = acc[k] /\ s'[k] = s[k]

\* C5: the accumulated colour of a pixel is the sum of exactly
\* SAMPLES_PER_PIXEL ray_color results of that pixel's own samples, whatever
\* the interleaving of the tasks of its scanline; a pixel task writes neither
\* the world, nor the camera, nor the accumulator of another pixel.
C5_PixelsIndependent == [](C5_OwnSum) /\ [][C5_OwnWrites]_vars

C5_Witness ==
    /\ tpc[0] = "returned"
    /\ tpc[1] = "returned"
    /\ order = <<1, 0>>
    /\ acc[0] # acc[1]
    /\ acc[1] = VAdd(Background(<<0, Scale, 0>>), Background(<<0, Scale, 0>>))

\* C6: no two tasks that run at the same time draw from the same generator
\* instance, neither for the jitter of the render loop nor in Vec3::random.
C6_GeneratorPerWorker ==
    \A i \in Cols :
        /\ Running(i) => rng[i] # NoRng
        /\ \A k \in Cols \ {i} :
              Running(i) /\ Running(k) =>
                  /\ rng[i] # rng[k]
                  /\ vrng[i] # NoRng => vrng[i] # rng[k] /\ vrng[i] # vrng[k]

C6_Witness ==
    /\ tpc[0] = "trace" /\ tpc[1] = "trace"
    /\ vrng[0] # NoRng /\ vrng[1] # NoRng
    /\ Len(PixelLines) > 0

\* the cell of the image plane that the loop samples for column i, row r
InFootprint(i, r, p) ==
    /\ FDiv(i * Scale, (IMAGE_WIGHT - 1) * Scale) <= p[1]
    /\ p[1] <= FDiv((i + 1) * Scale, (IMAGE_WIGHT - 1) * Scale)
    /\ FDiv(r * Scale, (IMAGE_HEIGHT - 1) * Scale) <= p[2]
    /\ p[2] <= FDiv((r + 1) * Scale, (IMAGE_HEIGHT - 1) * Scale)

\* C9: for every pixel (i,j) and every jitter in [0,1), the (u,v) passed to
\* the camera's get_ray lies in the unit square and inside the footprint of
\* pixel (i,j).
C9_UVInUnitSquare ==
    \A i \in Cols :
        tpc[i] = "trace" =>
            /\ 0 <= uv[i][1] /\ uv[i][1] <= Scale
            /\ 0 <= uv[i][2] /\ uv[i][2] <= Scale
            /\ InFootprint(i, j, uv[i])

\* C10: the progress stream reports every scanline exactly once, in
\* decreasing order from height-1 to 0, each before any pixel of that scanline
\* is written; Done is emitted exactly once and only after all width*height
\* pixels; no progress text goes to the pixel stream.
C10_ProgressStream ==
    /\ \A k \in 1..Len(Reports) : Reports[k].row = IMAGE_HEIGHT - k
    /\ Len(Reports) <= IMAGE_HEIGHT
    /\ \A k \in 1..Len(PixelLines) :
          \E r \in 1..Len(Reports) : Reports[r].row = PixelLines[k].row
    /\ Len(SelectSeq(stderr, IsDone)) <= 1
    /\ Len(SelectSeq(stderr, IsDone)) = 1 =>
          /\ Len(PixelLines) = NumPixels
          /\ Len(Reports) = IMAGE_HEIGHT
          /\ IsDone(stderr[Len(stderr)])
    /\ pc = "exit" <=> Len(SelectSeq(stderr, IsDone)) = 1
    /\ \A k \in 1..Len(stdout) :
          stdout[k].kind \in {"magic", "size", "maxval", "pixel"}
    /\ \A k \in 1..Len(stderr) :
          stderr[k].kind \in {"remaining", "clear", "done"}

C10_Witness ==
    /\ pc = "exit"
    /\ Len(Reports) = IMAGE_HEIGHT
    /\ Reports[IMAGE_HEIGHT].row = 0
    /\ Len(PixelLines) = NumPixels
    /\ IsDone(stderr[Len(stderr)])

=============================================================================
